---------------------------- MODULE Spec2Model ----------------------------
(***************************************************************************)
(* A model of src/ses/audio_recorder.cpp: the AudioRecorder class and      *)
(* main().                                                                 *)
(*                                                                         *)
(* std::string values are sequences of one-character strings; the three    *)
(* output files hold exactly the characters writeToFile puts in them       *)
(* (the content followed by a newline).  int16_t samples are integers in   *)
(* -32768..32767, bytes are integers in 0..255, and the host is            *)
(* little-endian (the program links the x86_64 build of the recognizer).   *)
(*                                                                         *)
(* Environment assumptions: the output files in the working directory can  *)
(* be created (writeToFile and saveWAVFile find their stream open), and    *)
(* the progress line written to the console every 25th chunk is not part   *)
(* of the state.                                                           *)
(***************************************************************************)
EXTENDS Integers, Sequences, FiniteSets

\* ------------------------------------------------------------------ bounds

\* sizeof(buffer) scaled down: the code reads up to 320 bytes per fread.
BufferSize == 4
\* Non-empty reads per session; after that many the source reports end of stream.
MaxReads == 2
\* Longest chunk handed to calculateAudioLevel in SpecLevel.
MaxChunk == 3
\* Payloads of SpecJson are concatenations of at most this many fragments.
MaxFrags == 4
\* Sample counts 0..MaxSmallWav are tried by SpecWav besides the ones near 2^31.
MaxSmallWav == 40
\* Publisher calls per run of SpecPub.
MaxCalls == 4

\* ------------------------------------------------------- program constants

TwoTo16 == 65536
SAMPLE_RATE == 16000
HEADER_REST == 36

NPOS == -1

\* ----------------------------------------------------------------- strings

NL == "\n"
QUOTE == "\""
COLON == ":"
SPACE == " "

RECURSIVE Digits(_)
Digits(n) ==
    IF n < 10 THEN <<CASE n = 0 -> "0" [] n = 1 -> "1" [] n = 2 -> "2" [] n = 3 -> "3"
                       [] n = 4 -> "4" [] n = 5 -> "5" [] n = 6 -> "6" [] n = 7 -> "7"
                       [] n = 8 -> "8" [] OTHER -> "9">>
    ELSE Digits(n \div 10) \o Digits(n % 10)

\* std::to_string(int)
to_string(n) == IF n < 0 THEN <<"-">> \o Digits(-n) ELSE Digits(n)

\* Whether pat occurs in s at 0-based position i.
MatchAt(s, pat, i) ==
    /\ i + Len(pat) <= Len(s)
    /\ \A k \in 1..Len(pat) : s[i + k] = pat[k]

\* std::string::find(pat, pos): the lowest 0-based position >= pos, or NPOS.
Find(s, pat, pos) ==
    LET hits == {i \in pos..(Len(s) - Len(pat)) : MatchAt(s, pat, i)}
    IN  IF hits = {} THEN NPOS ELSE CHOOSE i \in hits : \A j \in hits : i <= j

\* std::string::substr(pos, count)
Substr(s, pos, count) ==
    SubSeq(s, pos + 1, IF pos + count > Len(s) THEN Len(s) ELSE pos + count)

TEXT_KEY == <<QUOTE, "t", "e", "x", "t", QUOTE>>

extractTextFromJson(jsonStr) ==
    LET textPos == Find(jsonStr, TEXT_KEY, 0)
        colonPos == Find(jsonStr, <<COLON>>, textPos)
        startQuote == Find(jsonStr, <<QUOTE>>, colonPos)
        endQuote == Find(jsonStr, <<QUOTE>>, startQuote + 1)
    IN  IF textPos = NPOS THEN <<>>
        ELSE IF colonPos = NPOS THEN <<>>
        ELSE IF startQuote = NPOS THEN <<>>
        ELSE IF endQuote = NPOS THEN <<>>
        ELSE Substr(jsonStr, startQuote + 1, endQuote - startQuote - 1)

\* ----------------------------------------------------------------- samples

Abs(x) == IF x < 0 THEN -x ELSE x

RECURSIVE SumAbs(_)
SumAbs(samples) ==
    IF samples = <<>> THEN 0 ELSE Abs(Head(samples)) + SumAbs(Tail(samples))

\* (int)(x / 3276.7) for the double x = sum / sampleCount.  For every
\* sampleCount below 400 and every sum the double arithmetic gives exactly
\* trunc(10 * sum / (32767 * sampleCount)); the sum of at most 160
\* magnitudes stays far below 2^31.
LevelOf(sum, sampleCount) == (10 * sum) \div (32767 * sampleCount)

RECURSIVE Sum(_)
Sum(samples) == IF samples = <<>> THEN 0 ELSE Head(samples) + Sum(Tail(samples))

calculateAudioLevel_NoAbs(samples) ==
    IF Len(samples) = 0 THEN 0
    ELSE LET level == IF Sum(samples) < 0
                      THEN -((10 * (-Sum(samples))) \div (32767 * Len(samples)))
                      ELSE LevelOf(Sum(samples), Len(samples))
         IN  IF level > 10 THEN 10 ELSE level

calculateAudioLevel(samples) ==
    IF Len(samples) = 0 THEN 0
    ELSE LET level == LevelOf(SumAbs(samples), Len(samples))
         IN  IF level > 10 THEN 10 ELSE level

\* One int16_t read through (int16_t*)buffer from two bytes, low byte first.
SampleAt(lo, hi) ==
    LET u == lo + 256 * hi IN IF u >= 32768 THEN u - TwoTo16 ELSE u

\* The two bytes of an int16_t in memory, low byte first.
SampleBytes(s) ==
    LET u == IF s < 0 THEN s + TwoTo16 ELSE s IN <<u % 256, u \div 256>>

RECURSIVE BytesOf(_)
BytesOf(samples) ==
    IF samples = <<>> THEN <<>> ELSE SampleBytes(Head(samples)) \o BytesOf(Tail(samples))


\* ------------------------------------------------------------ WAV encoder

\* A size_t value hi * 2^16 + lo, kept in two limbs so that sizes around
\* 2^32 can be written down.
Wide(n) == [hi |-> n \div TwoTo16, lo |-> n % TwoTo16]

WideAdd(a, b) ==
    [hi |-> a.hi + b.hi + (a.lo + b.lo) \div TwoTo16, lo |-> (a.lo + b.lo) % TwoTo16]

\* The conversion to uint32_t: the value modulo 2^32.
U32(a) == [hi |-> a.hi % TwoTo16, lo |-> a.lo]

\* saveWAVFile's header for audioData.size() = size:
\*   header.subchunk2Size = audioData.size() * sizeof(int16_t);
\*   header.chunkSize = 36 + header.subchunk2Size;
\* both fields are uint32_t.
WAVHeader(size) ==
    LET subchunk2Size == U32(WideAdd(size, size))
    IN  [chunkSize |-> U32(WideAdd(Wide(HEADER_REST), subchunk2Size)),
         subchunk2Size |-> subchunk2Size,
         subchunk1Size |-> 16, audioFormat |-> 1, numChannels |-> 1,
         sampleRate |-> SAMPLE_RATE, byteRate |-> 32000, blockAlign |-> 2,
         bitsPerSample |-> 16]

\* The file saveWAVFile leaves: the header, then the first subchunk2Size
\* bytes of audioData's memory.
saveWAVFile(samples) ==
    LET header == WAVHeader(Wide(Len(samples)))
        count == header.subchunk2Size.hi * TwoTo16 + header.subchunk2Size.lo
    IN  [header |-> header, data |-> SubSeq(BytesOf(samples), 1, count)]

\* --------------------------------------------------------- state publisher

\* The content of a file after writeToFile(filename, content).
writeToFile(content) == content \o <<NL>>

writePartialText_EmptyToo(file, text) == writeToFile(text)

\* writePartialText: the text file after the call.
writePartialText(file, text) == IF text = <<>> THEN file ELSE writeToFile(text)

accumulate_NoSeparator(acc, text) == IF text = <<>> THEN acc ELSE acc \o text

\* writeRecognizedText: accumulatedText after the call.
accumulate(acc, text) ==
    IF text = <<>> THEN acc
    ELSE (IF acc # <<>> THEN acc \o <<SPACE>> ELSE acc) \o text

writeRecognizedText_NewestOnly(acc, file, text) ==
    IF text = <<>> THEN file ELSE writeToFile(text)

\* writeRecognizedText: the text file after the call.
writeRecognizedText(acc, file, text) ==
    IF text = <<>> THEN file ELSE writeToFile(accumulate(acc, text))

\* writeAudioLevel: the level file after the call.
writeAudioLevel(level) == writeToFile(to_string(level))


\* -------------------------------------------------------------- the state

VARIABLES
    pc,               \* position of main(): start, prompt, loop, recognize, closing,
                      \* save, finish, exit, done, killed
    running,          \* AudioRecorder::running, the stop flag
    model,            \* VoskModel* model: "null", "live" or "freed" (dangling)
    rec,              \* VoskRecognizer* rec: "null" or "live"
    modelAttempts,    \* the paths vosk_model_new was called with, in order
    initOk,           \* what initialize() returned: "none", "true", "false"
    accumulatedText,  \* AudioRecorder::accumulatedText, the Transcript
    textFile,         \* content of recognized_text.txt, the current-text slot
    levelFile,        \* content of audio_level.txt, the current-level slot
    resets,           \* how many times clearFiles() ran
    mode,             \* the mode record() was called with, -1 before the call
    pipe,             \* the parec pipe of record(): "none", "open", "closed"
    buffer,           \* char buffer[320] of record()
    bytesRead,        \* bytesRead of the current iteration, after truncation
    audioData,        \* AudioRecorder::audioData, the Sample Buffer
    chunkBuffer,      \* chunkBuffer of record()
    totalBytes,       \* totalBytes of record()
    updateCounter,    \* updateCounter of record()
    recCalls,         \* calls made on the recognizer, per operation
    wavFile,          \* <<>> or <<the file saveWAVFile wrote>>
    recordOk,         \* what record() returned: "none", "true", "false"
    exitCode,         \* how the process ended: "none", "0", "1", "abort"
    lastData,         \* the bytes the last fread returned
    rawTotal,         \* bytes the audio source delivered so far
    oddReads,         \* how many freads returned an odd count
    paired,           \* the even-length prefixes of all reads, concatenated
    sigAt,            \* the position at which SIGINT/SIGTERM arrived, or "none"
    frees,            \* calls of vosk_model_free and vosk_recognizer_free so far
    log,              \* the calls record() made from its loop on, in order: fread,
                      \* writeAudioLevel, pclose, saveWAVFile and those on rec
    accepted,         \* the bytes handed to vosk_recognizer_accept_waveform so far
    h                 \* argument and result of the function a function-level
                      \* specification applies

initVars == <<model, rec, modelAttempts, initOk>>
pubVars == <<accumulatedText, textFile, levelFile, resets>>
capVars == <<mode, pipe, buffer, bytesRead, audioData, chunkBuffer, totalBytes,
             updateCounter, lastData, rawTotal, oddReads, paired>>
endVars == <<wavFile, recordOk, exitCode, sigAt>>
histVars == <<frees, log, accepted>>
progVars == <<pc, running, initVars, pubVars, capVars, recCalls, endVars, histVars>>
vars == <<progVars, h>>

\* ------------------------------------------------------------ environment

\* Byte values the audio source delivers: any of these in SpecCapture, which
\* follows the samples, and silence in Spec, which follows the whole run.
Bytes == {0, 128}
SilentBytes == {0}

\* A byte of buffer that no fread has written yet.
UNWRITTEN == 255

\* What one fread(buffer, 1, sizeof(buffer), pipe) can return: 0 to
\* sizeof(buffer) bytes.
AllReads(byteSet) == UNION {[1..k -> byteSet] : k \in 0..BufferSize}

\* Payloads the recognizer returns: {"text" : "a"} and {"partial" : "b"}.
P_TEXT == <<"{", QUOTE, "t", "e", "x", "t", QUOTE, SPACE, COLON, SPACE, QUOTE, "a", QUOTE, "}">>
P_PARTIAL ==
    <<"{", QUOTE, "p", "a", "r", "t", "i", "a", "l", QUOTE, SPACE, COLON, SPACE, QUOTE, "b", QUOTE, "}">>
Payloads == {P_TEXT, P_PARTIAL}

\* What the two state files hold when the process starts: nothing, or what
\* an earlier run left.
STALE_TEXT == <<"o", "l", "d", NL>>
STALE_LEVEL == <<"7", NL>>

MODEL_PATH == "default"
ConfigLines == {"", "cfg", MODEL_PATH}
Paths == {"cfg", MODEL_PATH}

NoCalls == [partial |-> 0, accept |-> 0, result |-> 0, final |-> 0]
NoFrees == [model |-> 0, rec |-> 0]

\* main() never calls setSignalHandler(), so SIGINT and SIGTERM keep their
\* default disposition.
HandlerInstalled == FALSE

\* The handlers setSignalHandler() would install: each tests its own static
\* instance pointer, which is never assigned, so running is left alone.
HandlerInstance == "null"
SignalHandler(r) == IF HandlerInstance # "null" THEN FALSE ELSE r

ProgInit ==
    /\ pc = "start"
    /\ running = TRUE
    /\ model = "null"
    /\ rec = "null"
    /\ modelAttempts = <<>>
    /\ initOk = "none"
    /\ accumulatedText = <<>>
    /\ resets = 0
    /\ mode = -1
    /\ pipe = "none"
    /\ buffer = [i \in 1..BufferSize |-> UNWRITTEN]
    /\ bytesRead = 0
    /\ audioData = <<>>
    /\ chunkBuffer = <<>>
    /\ totalBytes = 0
    /\ updateCounter = 0
    /\ recCalls = NoCalls
    /\ wavFile = <<>>
    /\ recordOk = "none"
    /\ exitCode = "none"
    /\ lastData = <<>>
    /\ rawTotal = 0
    /\ oddReads = 0
    /\ paired = <<>>
    /\ sigAt = "none"
    /\ frees = NoFrees
    /\ log = <<>>
    /\ accepted = <<>>

Init ==
    /\ ProgInit
    /\ \E stale \in BOOLEAN :
        /\ textFile = IF stale THEN STALE_TEXT ELSE <<>>
        /\ levelFile = IF stale THEN STALE_LEVEL ELSE <<>>
    /\ h = <<>>

\* ------------------------------------------------------------- initialize

\* What clearFiles() leaves in the two state files.
ClearedText == writeToFile(<<>>)
ClearedLevel == writeToFile(<<"0">>)

readCurrentModelPath(line, hasConf) == IF line # "" /\ hasConf THEN line ELSE ""

\* The calls of vosk_model_new initialize() makes for modelPath, given which
\* paths load.
ModelAttempts(modelPath, loads) ==
    IF loads[modelPath] THEN <<modelPath>>
    ELSE IF modelPath # MODEL_PATH THEN <<modelPath, MODEL_PATH>>
    ELSE <<modelPath>>

\* Whether initialize() ends up with a model.
ModelLoaded(modelPath, loads) ==
    LET attempts == ModelAttempts(modelPath, loads) IN loads[attempts[Len(attempts)]]

initialize ==
    /\ pc = "start"
    /\ \E line \in ConfigLines, hasConf \in BOOLEAN, loads \in [Paths -> BOOLEAN],
          recOk \in BOOLEAN :
        LET cfg == readCurrentModelPath(line, hasConf)
            modelPath == IF cfg = "" THEN MODEL_PATH ELSE cfg
        IN  /\ modelAttempts' = ModelAttempts(modelPath, loads)
            /\ IF ~ModelLoaded(modelPath, loads)
               THEN /\ model' = "null" /\ rec' = "null" /\ initOk' = "false"
                    /\ UNCHANGED <<pubVars, frees>>
               ELSE IF ~recOk
               THEN /\ model' = "freed" /\ rec' = "null" /\ initOk' = "false"
                    /\ frees' = [frees EXCEPT !.model = @ + 1]
                    /\ UNCHANGED pubVars
               ELSE /\ model' = "live" /\ rec' = "live" /\ initOk' = "true"
                    /\ UNCHANGED frees
                    /\ accumulatedText' = <<>>
                    /\ textFile' = ClearedText
                    /\ levelFile' = ClearedLevel
                    /\ resets' = resets + 1
    /\ pc' = "prompt"
    /\ UNCHANGED <<running, capVars, recCalls, endVars, log, accepted, h>>


\* ----------------------------------------------------------------- record

MONITOR_SUFFIX == <<".", "m", "o", "n", "i", "t", "o", "r">>

\* getSystemAudioMonitor(): pipeOk is whether popen worked, hasLine whether
\* fgets returned a line.
getSystemAudioMonitor(pipeOk, hasLine, line) ==
    IF ~pipeOk THEN <<>>
    ELSE IF ~hasLine THEN <<>>
    ELSE (IF line # <<>> /\ line[Len(line)] = NL
          THEN SubSeq(line, 1, Len(line) - 1) ELSE line) \o MONITOR_SUFFIX

MonitorLines == {<<NL>>, <<"s", NL>>}

\* Whether record(mode) gets as far as the read loop.
CaptureStarts_AnyMode(choice, monitor, popenOk) ==
    /\ choice = 2 => monitor # <<>>
    /\ popenOk

CaptureStarts(choice, monitor, popenOk) ==
    /\ choice \in {1, 2}
    /\ choice = 2 => monitor # <<>>
    /\ popenOk

RecordStart ==
    /\ pc = "prompt"
    /\ \E choice \in 0..3, pipeOk \in BOOLEAN, hasLine \in BOOLEAN,
          line \in MonitorLines, popenOk \in BOOLEAN :
        /\ mode' = choice
        /\ IF CaptureStarts(choice, getSystemAudioMonitor(pipeOk, hasLine, line), popenOk)
           THEN /\ pipe' = "open"
                /\ buffer' = [i \in 1..BufferSize |-> UNWRITTEN]
                /\ pc' = "loop"
                /\ UNCHANGED recordOk
           ELSE /\ recordOk' = "false"
                /\ pc' = "exit"
                /\ UNCHANGED <<pipe, buffer>>
    /\ UNCHANGED <<running, initVars, pubVars, bytesRead, audioData, chunkBuffer,
                   totalBytes, updateCounter, lastData, rawTotal, oddReads, paired,
                   recCalls, wavFile, exitCode, sigAt, histVars, h>>

\* buffer after fread stored data at its start.
Fread(buf, data) ==
    [i \in 1..BufferSize |-> IF i <= Len(data) THEN data[i] ELSE buf[i]]

truncate_Keep(n) == n

\* if (bytesRead % 2 != 0) bytesRead--;
truncate(n) == IF n % 2 # 0 THEN n - 1 ELSE n

\* The samples the loop appends: samples[0 .. sampleCount-1] of the buffer,
\* read as int16_t, for n bytes read.
ChunkSamples_RoundUp(buf, n) ==
    LET sampleCount == IF n < BufferSize THEN (n + 1) \div 2 ELSE n \div 2
    IN  [i \in 1..sampleCount |-> SampleAt(buf[2 * i - 1], buf[2 * i])]

ChunkSamples(buf, n) ==
    LET sampleCount == truncate(n) \div 2
    IN  [i \in 1..sampleCount |-> SampleAt(buf[2 * i - 1], buf[2 * i])]

EvenPrefix(data) == SubSeq(data, 1, 2 * (Len(data) \div 2))

LevelDue_EveryChunk(counter) == TRUE

\* if (updateCounter % 2 == 0), after updateCounter++
LevelDue(counter) == counter % 2 = 0

\* One pass of the while loop up to the recognition step: the loop test, the
\* fread, the truncation, the copy into chunkBuffer and audioData, and the
\* level published on every second chunk.
ReadLoop(reads) ==
    /\ pc = "loop"
    /\ IF ~running
       THEN /\ pc' = "closing"
            /\ UNCHANGED <<capVars, levelFile, log>>
       ELSE \E data \in (IF updateCounter >= MaxReads THEN {<<>>} ELSE reads) :
            /\ lastData' = data
            /\ rawTotal' = rawTotal + Len(data)
            /\ oddReads' = oddReads + (Len(data) % 2)
            /\ paired' = paired \o EvenPrefix(data)
            /\ buffer' = Fread(buffer, data)
            /\ UNCHANGED <<mode, pipe>>
            /\ IF Len(data) = 0
               THEN /\ pc' = "closing"
                    /\ log' = Append(log, "fread")
                    /\ UNCHANGED <<bytesRead, audioData, chunkBuffer, totalBytes,
                                   updateCounter, levelFile>>
               ELSE LET samples == ChunkSamples(buffer', Len(data))
                    IN  /\ bytesRead' = truncate(Len(data))
                        /\ totalBytes' = totalBytes + truncate(Len(data))
                        /\ chunkBuffer' = chunkBuffer \o samples
                        /\ audioData' = audioData \o samples
                        /\ updateCounter' = updateCounter + 1
                        /\ levelFile' = IF LevelDue(updateCounter')
                                        THEN writeAudioLevel(calculateAudioLevel(samples))
                                        ELSE levelFile
                        /\ log' = log \o <<"fread">> \o
                                  (IF LevelDue(updateCounter')
                                   THEN <<"writeAudioLevel">> ELSE <<>>)
                        /\ pc' = "recognize"
    /\ UNCHANGED <<running, initVars, accumulatedText, textFile, resets, recCalls,
                   endVars, frees, accepted, h>>

\* The pass for an audio source that delivers bytes of byteSet.
ReadStep(byteSet) == ReadLoop(AllReads(byteSet))

ReadChunk == ReadStep(SilentBytes)

\* if (rec)
RecognitionEnabled_Always(r) == TRUE

RecognitionEnabled_Never(r) == FALSE

RecognitionEnabled(r) == r # "null"

\* The recognizer calls of the recognition step, in order: partial_result,
\* then accept_waveform and, when that returns true, result.
RecognizeCalls(finalized) ==
    <<"partial_result", "accept_waveform">> \o (IF finalized THEN <<"result">> ELSE <<>>)

AcceptedBytes_WholeBuffer(buf, n) == buf

\* vosk_recognizer_accept_waveform(rec, buffer, bytesRead): the bytes it is
\* given.
AcceptedBytes(buf, n) == [i \in 1..n |-> buf[i]]

\* The recognition step of one pass: the partial result first, then
\* accept_waveform and, when it reports a finished segment, the result.
Recognize ==
    /\ pc = "recognize"
    /\ IF ~RecognitionEnabled(rec)
       THEN UNCHANGED <<accumulatedText, textFile, recCalls, log, accepted>>
       ELSE \E partialResult \in Payloads, finalized \in BOOLEAN, result \in Payloads :
            LET partialText == extractTextFromJson(partialResult)
                afterPartial == writePartialText(textFile, partialText)
                text == extractTextFromJson(result)
            IN  /\ log' = log \o RecognizeCalls(finalized)
                /\ accepted' = accepted \o AcceptedBytes(buffer, bytesRead)
                /\ IF finalized
                   THEN /\ accumulatedText' = accumulate(accumulatedText, text)
                        /\ textFile' = writeRecognizedText(accumulatedText, afterPartial, text)
                        /\ recCalls' = [recCalls EXCEPT !.partial = @ + 1,
                                                        !.accept = @ + 1,
                                                        !.result = @ + 1]
                   ELSE /\ textFile' = afterPartial
                        /\ recCalls' = [recCalls EXCEPT !.partial = @ + 1,
                                                        !.accept = @ + 1]
                        /\ UNCHANGED accumulatedText
    /\ pc' = "loop"
    /\ UNCHANGED <<running, initVars, levelFile, resets, capVars, endVars, frees, h>>

\* The recognizer call record() makes after the loop.
FinalCalls(r) == IF RecognitionEnabled(r) THEN <<"final_result">> ELSE <<>>

\* pclose(pipe) and the final recognition.
FinalRecognition ==
    /\ pc = "closing"
    /\ pipe' = "closed"
    /\ IF ~RecognitionEnabled(rec)
       THEN /\ log' = log \o <<"pclose">> \o FinalCalls(rec)
            /\ UNCHANGED <<accumulatedText, textFile, recCalls>>
       ELSE \E finalResult \in Payloads :
            LET text == extractTextFromJson(finalResult)
            IN  /\ accumulatedText' = accumulate(accumulatedText, text)
                /\ textFile' = writeRecognizedText(accumulatedText, textFile, text)
                /\ recCalls' = [recCalls EXCEPT !.final = @ + 1]
                /\ log' = log \o <<"pclose">> \o FinalCalls(rec)
    /\ pc' = "save"
    /\ UNCHANGED <<running, initVars, levelFile, resets, mode, buffer, bytesRead, audioData,
                   chunkBuffer, totalBytes, updateCounter, lastData, rawTotal, oddReads,
                   paired, endVars, frees, accepted, h>>

\* if (!audioData.empty()) saveWAVFile(outputFilename);
SaveAudio ==
    /\ pc = "save"
    /\ wavFile' = IF audioData # <<>> THEN <<saveWAVFile(audioData)>> ELSE wavFile
    /\ log' = IF audioData # <<>> THEN Append(log, "saveWAVFile") ELSE log
    /\ pc' = "finish"
    /\ UNCHANGED <<running, initVars, pubVars, capVars, recCalls, recordOk, exitCode,
                   sigAt, frees, accepted, h>>

\* writeAudioLevel(0); return true;
RecordReturn ==
    /\ pc = "finish"
    /\ levelFile' = writeAudioLevel(0)
    /\ log' = Append(log, "writeAudioLevel")
    /\ recordOk' = "true"
    /\ pc' = "exit"
    /\ UNCHANGED <<running, initVars, accumulatedText, textFile, resets, capVars,
                   recCalls, wavFile, exitCode, sigAt, frees, accepted, h>>

\* ------------------------------------------------------------------- main

\* main's return value.
ExitStatus(ok) == IF ok = "true" THEN "0" ELSE "1"

\* return from main: the exit status, then ~AudioRecorder() runs cleanup().
\* When initialize() freed the model and kept the pointer, cleanup() frees it
\* a second time: the process either gets away with it or is aborted.
MainReturn ==
    /\ pc = "exit"
    /\ rec' = "null"
    /\ model' = "null"
    /\ frees' = [model |-> frees.model + (IF model # "null" THEN 1 ELSE 0),
                 rec |-> frees.rec + (IF rec # "null" THEN 1 ELSE 0)]
    /\ \E aborted \in (IF model = "freed" THEN BOOLEAN ELSE {FALSE}) :
        exitCode' = IF aborted THEN "abort" ELSE ExitStatus(recordOk)
    /\ pc' = "done"
    /\ UNCHANGED <<running, modelAttempts, initOk, pubVars, capVars, recCalls, wavFile,
                   recordOk, sigAt, log, accepted, h>>

\* SIGINT or SIGTERM arrives while the process runs.
Signal ==
    /\ pc \notin {"done", "killed"}
    /\ IF HandlerInstalled
       THEN /\ running' = SignalHandler(running)
            /\ UNCHANGED pc
       ELSE /\ pc' = "killed"
            /\ UNCHANGED running
    /\ sigAt' = pc
    /\ UNCHANGED <<initVars, pubVars, capVars, recCalls, wavFile, recordOk, exitCode,
                   histVars, h>>

Next ==
    \/ initialize
    \/ RecordStart
    \/ ReadChunk
    \/ Recognize
    \/ FinalRecognition
    \/ SaveAudio
    \/ RecordReturn
    \/ MainReturn
    \/ Signal

Spec == Init /\ [][Next]_vars


\* ------------------------------------------------- the read loop on its own

\* record() at the top of its loop, in a run whose initialize() found no
\* model: the state Spec reaches by initialize and RecordStart.
CaptureInit ==
    /\ pc = "loop"
    /\ running = TRUE
    /\ model = "null"
    /\ rec = "null"
    /\ modelAttempts = <<MODEL_PATH>>
    /\ initOk = "false"
    /\ accumulatedText = <<>>
    /\ textFile = STALE_TEXT
    /\ levelFile = STALE_LEVEL
    /\ resets = 0
    /\ mode = 1
    /\ pipe = "open"
    /\ buffer = [i \in 1..BufferSize |-> UNWRITTEN]
    /\ bytesRead = 0
    /\ audioData = <<>>
    /\ chunkBuffer = <<>>
    /\ totalBytes = 0
    /\ updateCounter = 0
    /\ recCalls = NoCalls
    /\ wavFile = <<>>
    /\ recordOk = "none"
    /\ exitCode = "none"
    /\ lastData = <<>>
    /\ rawTotal = 0
    /\ oddReads = 0
    /\ paired = <<>>
    /\ sigAt = "none"
    /\ frees = NoFrees
    /\ log = <<>>
    /\ accepted = <<>>
    /\ h = <<>>

CaptureChunk == ReadStep(Bytes)

CaptureNext ==
    \/ CaptureChunk
    \/ Recognize
    \/ FinalRecognition
    \/ SaveAudio
    \/ RecordReturn
    \/ MainReturn

SpecCapture == CaptureInit /\ [][CaptureNext]_vars

\* --------------------------------------- the read loop with a recognizer

\* An audio source whose bytes differ from one position of a read to the
\* next: what it delivers is the start of one of two byte patterns.
Patterns == {[i \in 1..BufferSize |-> i], [i \in 1..BufferSize |-> 128 + i]}
PatternReads == {SubSeq(p, 1, k) : p \in Patterns, k \in 0..BufferSize}

\* record() at the top of its loop after a successful initialize().
AcceptInit ==
    /\ pc = "loop"
    /\ running = TRUE
    /\ model = "live"
    /\ rec = "live"
    /\ modelAttempts = <<MODEL_PATH>>
    /\ initOk = "true"
    /\ accumulatedText = <<>>
    /\ textFile = ClearedText
    /\ levelFile = ClearedLevel
    /\ resets = 1
    /\ mode = 1
    /\ pipe = "open"
    /\ buffer = [i \in 1..BufferSize |-> UNWRITTEN]
    /\ bytesRead = 0
    /\ audioData = <<>>
    /\ chunkBuffer = <<>>
    /\ totalBytes = 0
    /\ updateCounter = 0
    /\ recCalls = NoCalls
    /\ wavFile = <<>>
    /\ recordOk = "none"
    /\ exitCode = "none"
    /\ lastData = <<>>
    /\ rawTotal = 0
    /\ oddReads = 0
    /\ paired = <<>>
    /\ sigAt = "none"
    /\ frees = NoFrees
    /\ log = <<>>
    /\ accepted = <<>>
    /\ h = <<>>

AcceptChunk == ReadLoop(PatternReads)

AcceptNext ==
    \/ AcceptChunk
    \/ Recognize
    \/ FinalRecognition
    \/ SaveAudio
    \/ RecordReturn
    \/ MainReturn

SpecAccept == AcceptInit /\ [][AcceptNext]_vars

\* ------------------------------------------- the pure functions on their own

\* The program before main() has done anything, the state files absent.
ProgIdle ==
    /\ ProgInit
    /\ textFile = <<>>
    /\ levelFile = <<>>

\* calculateAudioLevel and writeAudioLevel applied to chunk after chunk.
SampleValues == {-32768, -3277, 0, 3276, 32767}
Chunks == UNION {[1..k -> SampleValues] : k \in 0..MaxChunk}

LevelInit ==
    /\ ProgIdle
    /\ h = [chunk |-> <<>>, level |-> 0, done |-> FALSE]

LevelStep ==
    /\ \E chunk \in Chunks :
        /\ h' = [chunk |-> chunk, level |-> calculateAudioLevel(chunk), done |-> TRUE]
        /\ levelFile' = writeAudioLevel(calculateAudioLevel(chunk))
    /\ UNCHANGED <<pc, running, initVars, accumulatedText, textFile, resets, capVars,
                   recCalls, endVars, histVars>>

SpecLevel == LevelInit /\ [][LevelStep]_vars

\* extractTextFromJson applied to a payload put together from fragments.
Fragments ==
    { TEXT_KEY, <<COLON>>, <<QUOTE>>, <<SPACE>>, <<"5">>,
      <<QUOTE, "a", QUOTE>>,
      <<QUOTE, "k", QUOTE, COLON>>,
      <<",", QUOTE, "k", QUOTE, COLON, QUOTE, "b", QUOTE>> }

RECURSIVE Concats(_)
Concats(k) ==
    IF k = 0 THEN {<<>>}
    ELSE LET shorter == Concats(k - 1)
         IN  shorter \cup {p \o f : p \in shorter, f \in Fragments}

JsonInit ==
    /\ ProgIdle
    /\ \E payload \in Concats(MaxFrags) :
        h = [payload |-> payload, text |-> <<>>, done |-> FALSE]

ExtractStep ==
    /\ ~h.done
    /\ h' = [h EXCEPT !.text = extractTextFromJson(h.payload), !.done = TRUE]
    /\ UNCHANGED progVars

SpecJson == JsonInit /\ [][ExtractStep]_vars

\* saveWAVFile's header and write for an audioData of any size, sizes around
\* 2^31 samples included.
WavSizes ==
    { [hi |-> x, lo |-> y] : x \in {0, 32767, 32768},
                             y \in (0..MaxSmallWav) \cup ((TwoTo16 - 20)..(TwoTo16 - 1)) }

WavInit ==
    /\ ProgIdle
    /\ \E size \in WavSizes :
        h = [size |-> size, saved |-> FALSE, header |-> WAVHeader(Wide(0)),
             written |-> Wide(0)]

\* file.write(&header, sizeof(header)); file.write(audioData.data(), header.subchunk2Size)
WavStep ==
    /\ ~h.saved
    /\ h' = [h EXCEPT !.saved = TRUE, !.header = WAVHeader(h.size),
                      !.written = WAVHeader(h.size).subchunk2Size]
    /\ UNCHANGED progVars

SpecWav == WavInit /\ [][WavStep]_vars

\* The three publish operations called in any order after clearFiles().
Texts == {<<>>, <<"a">>, <<"b", SPACE, "c">>}
Levels == {0, 5, 10}

PubInit ==
    /\ ProgInit
    /\ textFile = ClearedText
    /\ levelFile = ClearedLevel
    /\ h = [finals |-> <<>>, calls |-> 0, last |-> "reset", arg |-> <<>>,
            before |-> <<>>, partial |-> <<>>]

PubFinal ==
    /\ h.calls < MaxCalls
    /\ \E text \in Texts :
        /\ accumulatedText' = accumulate(accumulatedText, text)
        /\ textFile' = writeRecognizedText(accumulatedText, textFile, text)
        /\ h' = [finals |-> IF text # <<>> THEN Append(h.finals, text) ELSE h.finals,
                 calls |-> h.calls + 1, last |-> "final", arg |-> text,
                 before |-> accumulatedText, partial |-> h.partial]
    /\ UNCHANGED <<pc, running, initVars, levelFile, resets, capVars, recCalls, endVars,
                   histVars>>

PubPartial ==
    /\ h.calls < MaxCalls
    /\ \E text \in Texts :
        /\ textFile' = writePartialText(textFile, text)
        /\ h' = [h EXCEPT !.calls = @ + 1, !.last = "partial", !.arg = text,
                          !.before = accumulatedText,
                          !.partial = IF text # <<>> THEN text ELSE @]
    /\ UNCHANGED <<pc, running, initVars, accumulatedText, levelFile, resets, capVars,
                   recCalls, endVars, histVars>>

PubLevel ==
    /\ h.calls < MaxCalls
    /\ \E level \in Levels :
        /\ levelFile' = writeAudioLevel(level)
        /\ h' = [h EXCEPT !.calls = @ + 1, !.last = "level", !.arg = to_string(level),
                          !.before = accumulatedText]
    /\ UNCHANGED <<pc, running, initVars, accumulatedText, textFile, resets, capVars,
                   recCalls, endVars, histVars>>

PubNext ==
    \/ PubFinal
    \/ PubPartial
    \/ PubLevel

SpecPub == PubInit /\ [][PubNext]_vars


\* ------------------------------------------------------------- the claims

\* C1: when SIGINT or SIGTERM arrives while the read loop runs, the stop
\* flag is set and the process goes on: it reaches the final recognition
\* (when a recognizer exists) and writes the WAV file if audioData is not
\* empty.
C1_StopSignalEndsLoopGracefully ==
    sigAt \in {"loop", "recognize"} =>
        /\ running = FALSE
        /\ pc # "killed"
        /\ pc = "done" =>
            /\ initOk = "true" => recCalls.final = 1
            /\ audioData # <<>> => wavFile # <<>>

\* The bytes of a read taken two at a time as int16_t.
DecodeBytes(bytes) ==
    [i \in 1..(Len(bytes) \div 2) |-> SampleAt(bytes[2 * i - 1], bytes[2 * i])]

\* C2 as stated: audioData holds half as many samples as the audio source
\* has delivered bytes.
C2_LengthIsHalfOfBytesRead == Len(audioData) = rawTotal \div 2

\* C2 as amended: audioData holds half as many samples as the audio source
\* has delivered bytes not counting the last byte of each odd-sized read
\* (which is what totalBytes counts), and its samples are exactly the
\* paired bytes of the reads: none comes from an odd trailing byte.
C2_LengthIsHalfOfPairedBytes ==
    /\ 2 * Len(audioData) = rawTotal - oddReads
    /\ 2 * Len(audioData) = totalBytes
    /\ BytesOf(audioData) = paired

C2_Witness == oddReads = 2 /\ Len(audioData) >= 2 /\ pc = "done"

\* C3: a read of an odd number b of bytes appends (b-1)/2 samples, and
\* every read, the one after an odd read included, appends the samples made
\* of its own bytes paired from its start: the odd trailing byte is neither
\* stored nor carried over.
C3_OddReadDropsTrailingByte ==
    [][(pc = "loop" /\ pc' = "recognize") =>
        /\ audioData' = audioData \o DecodeBytes(EvenPrefix(lastData'))
        /\ Len(lastData') % 2 = 1 =>
            Len(audioData') = Len(audioData) + (Len(lastData') - 1) \div 2]_vars

C3_Witness ==
    /\ pc = "recognize"
    /\ updateCounter = 2
    /\ oddReads = 1
    /\ Len(lastData) = 2
    /\ Len(audioData) = 2

RECURSIVE Join(_)
Join(texts) ==
    IF texts = <<>> THEN <<>>
    ELSE IF Len(texts) = 1 THEN texts[1]
    ELSE texts[1] \o <<SPACE>> \o Join(Tail(texts))

IsPrefix(a, b) == Len(a) <= Len(b) /\ SubSeq(b, 1, Len(a)) = a

\* C4: after any publish calls following a reset the Transcript is the
\* non-empty arguments of publish-final-text in call order joined by single
\* spaces, without a leading, trailing or doubled space; every call leaves
\* the earlier Transcript as a prefix of the new one, and
\* publish-final-text("") and the other two operations leave it unchanged.
C4_TranscriptIsJoinOfFinals ==
    /\ accumulatedText = Join(h.finals)
    /\ IsPrefix(h.before, accumulatedText)
    /\ (h.last = "final" /\ h.arg = <<>>) => accumulatedText = h.before
    /\ h.last \in {"partial", "level"} => accumulatedText = h.before
    /\ accumulatedText # <<>> =>
        /\ accumulatedText[1] # SPACE
        /\ accumulatedText[Len(accumulatedText)] # SPACE
    /\ \A i \in 1..(Len(accumulatedText) - 1) :
        ~(accumulatedText[i] = SPACE /\ accumulatedText[i + 1] = SPACE)

C4_Witness ==
    /\ Len(h.finals) = 2
    /\ h.finals[1] # h.finals[2]
    /\ h.last = "final"
    /\ h.arg = <<>>
    /\ h.calls = MaxCalls

\* C5: when record() is about to read its first chunk, clearFiles() has run
\* exactly once: the Transcript and the text file are empty and the level
\* file holds 0, with or without a recognizer.
C5_ResetBeforeFirstRead ==
    (pc = "loop" /\ updateCounter = 0) =>
        /\ resets = 1
        /\ accumulatedText = <<>>
        /\ textFile = ClearedText
        /\ levelFile = ClearedLevel


\* How often path occurs in attempts.
RECURSIVE Occurrences(_, _)
Occurrences(attempts, path) ==
    IF attempts = <<>> THEN 0
    ELSE (IF Head(attempts) = path THEN 1 ELSE 0) + Occurrences(Tail(attempts), path)

\* C6: the default model path is tried at most once, and only the
\* configured path before it; with no recognizer no recognizer operation is
\* ever called, while the capture goes on as it does with one: every
\* non-empty read is counted, audioData is the paired bytes of the reads,
\* every second chunk's level is published, and once record() has saved,
\* the WAV file of a non-empty audioData is there.
C6_DisabledModeStillCaptures ==
    /\ Occurrences(modelAttempts, MODEL_PATH) <= 1
    /\ Len(modelAttempts) <= 2
    /\ Len(modelAttempts) = 2 => modelAttempts[2] = MODEL_PATH
    /\ initOk = "false" => (rec = "null" /\ recCalls = NoCalls)
    /\ BytesOf(audioData) = paired
    /\ 2 * Len(audioData) = rawTotal - oddReads
    /\ (pc = "recognize" /\ updateCounter % 2 = 0) =>
        levelFile = writeAudioLevel(calculateAudioLevel(DecodeBytes(EvenPrefix(lastData))))
    /\ (pc \in {"finish", "exit", "done"} /\ audioData # <<>>) =>
        wavFile = <<saveWAVFile(audioData)>>
    /\ audioData = <<>> => wavFile = <<>>

C6_Witness ==
    /\ initOk = "false"
    /\ Len(modelAttempts) = 2
    /\ pc = "done"
    /\ updateCounter = MaxReads
    /\ wavFile # <<>>
    /\ wavFile[1].header.subchunk2Size = Wide(2 * Len(audioData))
    /\ levelFile = writeAudioLevel(0)
    /\ recCalls = NoCalls

\* C7: calculateAudioLevel returns a level in 0..10: 0 for an empty or
\* all-zero chunk, 10 for a chunk of samples of magnitude 32767 or 32768,
\* and no less than the level of any chunk of lower or equal mean
\* magnitude; the level file then holds that number.
C7_LevelBoundedAndMonotonic ==
    h.done =>
        /\ h.level \in 0..10
        /\ levelFile = to_string(h.level) \o <<NL>>
        /\ (\A i \in 1..Len(h.chunk) : h.chunk[i] = 0) => h.level = 0
        /\ (h.chunk # <<>> /\ \A i \in 1..Len(h.chunk) : Abs(h.chunk[i]) >= 32767) =>
            h.level = 10
        /\ \A other \in Chunks :
            (other # <<>> /\ h.chunk # <<>> /\
             SumAbs(other) * Len(h.chunk) <= SumAbs(h.chunk) * Len(other)) =>
                calculateAudioLevel(other) <= h.level

C7_Witness ==
    /\ h.done
    /\ Len(h.chunk) = MaxChunk
    /\ \E i \in 1..Len(h.chunk) : h.chunk[i] = -32768
    /\ h.level \in 1..9

\* C8: for every number of samples the header's data size is twice that
\* number and its RIFF size 36 more, neither of them wrapped, with 16000 Hz,
\* one channel and 16 bits; and twice that number of bytes of samples are
\* written.
C8_HeaderSizesAreExact ==
    h.saved =>
        /\ h.header.subchunk2Size = WideAdd(h.size, h.size)
        /\ h.header.chunkSize = WideAdd(Wide(HEADER_REST), WideAdd(h.size, h.size))
        /\ h.written = WideAdd(h.size, h.size)
        /\ h.header.sampleRate = SAMPLE_RATE
        /\ h.header.numChannels = 1
        /\ h.header.bitsPerSample = 16

\* The position of the first character of s at or after pos that is not a
\* space, or Len(s).
SkipSpaces(s, pos) ==
    LET rest == {i \in pos..(Len(s) - 1) : s[i + 1] # SPACE}
    IN  IF rest = {} THEN Len(s) ELSE CHOOSE i \in rest : \A j \in rest : i <= j

\* What C9 says extractTextFromJson returns: the quoted string that follows
\* the first "text" key and its colon, and the empty string when there is no
\* such key, or no colon after it, or anything but a quoted string after the
\* colon.
TextValue(s) ==
    LET textPos == Find(s, TEXT_KEY, 0)
        colonPos == SkipSpaces(s, textPos + Len(TEXT_KEY))
        startQuote == SkipSpaces(s, colonPos + 1)
        endQuote == Find(s, <<QUOTE>>, startQuote + 1)
    IN  IF textPos = NPOS THEN <<>>
        ELSE IF colonPos >= Len(s) \/ s[colonPos + 1] # COLON THEN <<>>
        ELSE IF startQuote >= Len(s) \/ s[startQuote + 1] # QUOTE THEN <<>>
        ELSE IF endQuote = NPOS THEN <<>>
        ELSE Substr(s, startQuote + 1, endQuote - startQuote - 1)

\* C9: extractTextFromJson returns the value of the first "text" key when
\* that value is a quoted string, and the empty string when the key is
\* absent or its value is missing or not a quoted string; never the text of
\* another key.
C9_ExtractsOnlyTheTextValue == h.done => h.text = TextValue(h.payload)

\* C10: when record() cannot start the capture (a mode other than 1 and 2,
\* no monitor, no pipe) it fails at once and the process ends with a
\* non-zero status: no chunk was read, no recognizer operation called, no
\* WAV file written, and the Transcript and the two state files are as
\* initialize() left them.
C10_FailedStartHasNoEffect ==
    /\ (mode \in {0, 3}) => recordOk = "false"
    /\ recordOk = "false" =>
        /\ pc \in {"exit", "done", "killed"}
        /\ pc = "done" => exitCode \in {"1", "abort"}
        /\ pipe = "none"
        /\ rawTotal = 0 /\ updateCounter = 0 /\ audioData = <<>>
        /\ recCalls = NoCalls
        /\ wavFile = <<>>
        /\ accumulatedText = <<>>
        /\ initOk = "true" => (textFile = ClearedText /\ levelFile = ClearedLevel)
        /\ initOk = "false" =>
            <<textFile, levelFile>> \in {<<STALE_TEXT, STALE_LEVEL>>, <<<<>>, <<>>>>}

C10_Witness ==
    /\ recordOk = "false"
    /\ mode = 2
    /\ initOk = "true"
    /\ pc = "done"
    /\ exitCode = "1"

\* C11: when the process has ended, on whatever path, nothing it acquired
\* is left unreleased: the parec pipe is not open, and neither the
\* recognizer nor the model is still allocated.
C11_EveryExitReleasesAll ==
    pc \in {"done", "killed"} =>
        /\ pipe # "open"
        /\ rec # "live"
        /\ model # "live"

\* C19: vosk_model_free is called at most once on the model and
\* vosk_recognizer_free at most once on the recognizer, whatever
\* initialize() returned.
C19_HandlesFreedAtMostOnce ==
    /\ frees.model <= 1
    /\ frees.rec <= 1

\* The calls of l from its first call of name on, <<>> when there is none.
CallsFrom(l, name) ==
    LET at == {i \in 1..Len(l) : l[i] = name}
    IN  IF at = {} THEN <<>>
        ELSE SubSeq(l, CHOOSE i \in at : \A j \in at : i <= j, Len(l))

\* C12: saveWAVFile is not called while the loop runs; once record() has
\* returned from a session that entered the loop, what it did from pclose
\* on is the final recognition (with a recognizer), then saveWAVFile once
\* if and only if audioData is not empty, then writeAudioLevel(0); and when
\* a session that entered the loop has ended, however the loop was stopped,
\* the level file holds 0.
C12_FinalizeThenSaveThenLevelZero ==
    /\ pc \in {"loop", "recognize", "closing"} =>
        (wavFile = <<>> /\ Occurrences(log, "saveWAVFile") = 0)
    /\ recordOk = "true" =>
        /\ CallsFrom(log, "pclose") =
              <<"pclose">>
              \o (IF initOk = "true" THEN <<"final_result">> ELSE <<>>)
              \o (IF audioData # <<>> THEN <<"saveWAVFile">> ELSE <<>>)
              \o <<"writeAudioLevel">>
        /\ audioData # <<>> <=> wavFile # <<>>
    /\ (pc \in {"done", "killed"} /\ pipe # "none") => levelFile = writeAudioLevel(0)

\* C13: a pass of the loop publishes a level exactly when the number of
\* chunks read, this one included, is even, and the level it publishes is
\* that of this pass's own samples; a pass over an odd-numbered chunk leaves
\* the level file alone. So after k non-empty reads the loop has called
\* writeAudioLevel k div 2 times, and the read that ends the stream adds
\* none: once for two chunks and the end of the stream.
C13_LevelPublishedOnEvenChunks ==
    [][pc = "loop" =>
        /\ Occurrences(log', "writeAudioLevel") = updateCounter' \div 2
        /\ pc' = "closing" => (levelFile' = levelFile /\ updateCounter' = updateCounter)
        /\ pc' = "recognize" =>
            /\ updateCounter' = updateCounter + 1
            /\ IF updateCounter' % 2 = 0
               THEN /\ levelFile' = writeAudioLevel(calculateAudioLevel(
                                        DecodeBytes(EvenPrefix(lastData'))))
                    /\ Occurrences(log', "writeAudioLevel") =
                           Occurrences(log, "writeAudioLevel") + 1
               ELSE /\ levelFile' = levelFile
                    /\ Occurrences(log', "writeAudioLevel") =
                           Occurrences(log, "writeAudioLevel")]_vars

C13_Witness ==
    /\ pc = "closing"
    /\ updateCounter = 2
    /\ Occurrences(log, "writeAudioLevel") = 1
    /\ Len(audioData) = 3
    /\ audioData[1] = -32768
    /\ audioData[2] = 0
    /\ levelFile = writeAudioLevel(0)

\* C14: in every pass of the loop with a recognizer the chunk is handed to
\* accept_waveform first, result is called when that reports a finished
\* segment, and partial_result is called after them: each partial_result
\* call comes right after the accept_waveform, or the result, of its pass.
C14_AcceptBeforePartial ==
    \A i \in 1..Len(log) :
        log[i] = "partial_result" =>
            (i > 1 /\ log[i - 1] \in {"accept_waveform", "result"})

\* C15: right after a writeRecognizedText call with a non-empty text the
\* text file holds the whole Transcript, every finalized segment so far; and
\* after clearFiles() the text file always holds the empty string, or the
\* Transcript as it was after some writeRecognizedText call, or the argument
\* of the latest writePartialText call with a non-empty text.
C15_TextSlotHoldsTranscriptOrPartial ==
    /\ (h.last = "final" /\ h.arg # <<>>) =>
        /\ textFile = writeToFile(accumulatedText)
        /\ accumulatedText = Join(h.finals)
    /\ \/ textFile = writeToFile(<<>>)
       \/ \E k \in 1..Len(h.finals) : textFile = writeToFile(Join(SubSeq(h.finals, 1, k)))
       \/ (h.partial # <<>> /\ textFile = writeToFile(h.partial))

C15_Witness ==
    /\ h.last = "final"
    /\ h.arg = <<"a">>
    /\ h.partial = <<"b", SPACE, "c">>
    /\ h.finals = <<<<"b", SPACE, "c">>, <<"a">>>>
    /\ textFile = <<"b", SPACE, "c", SPACE, "a", NL>>

\* C16: writePartialText changes nothing but the text file, and not even
\* that when its text is empty: the Transcript and the level file are as
\* before; writeAudioLevel changes nothing but the level file; and
\* writeRecognizedText with an empty text changes nothing.
C16_PublishCallsChangeTheirSlotOnly ==
    [][/\ h'.last = "partial" =>
            /\ UNCHANGED <<pc, running, initVars, accumulatedText, levelFile, resets,
                           capVars, recCalls, endVars, histVars>>
            /\ h'.arg = <<>> => UNCHANGED textFile
            /\ h'.arg # <<>> => textFile' = writeToFile(h'.arg)
       /\ h'.last = "level" =>
            /\ UNCHANGED <<pc, running, initVars, accumulatedText, textFile, resets,
                           capVars, recCalls, endVars, histVars>>
            /\ levelFile' = writeToFile(h'.arg)
       /\ (h'.last = "final" /\ h'.arg = <<>>) => UNCHANGED progVars]_vars

C16_Witness ==
    /\ h.last = "partial"
    /\ h.arg = <<>>
    /\ h.calls = MaxCalls
    /\ accumulatedText = <<"a">>
    /\ textFile = <<"a", NL>>
    /\ levelFile = <<"5", NL>>

\* The calls on the recognizer that C17 rules out after final_result.
StreamingCalls == {"partial_result", "accept_waveform", "result"}

\* C17: in a session with a recognizer, final_result is not called while
\* the loop runs and has been called exactly once when the final
\* recognition is over; the call comes after every accept_waveform,
\* partial_result and result call, none of which is made again; and its
\* text, when not empty, goes to writeRecognizedText: it is appended to the
\* Transcript and the text file holds the Transcript.
C17_FinalResultOnceAndLast ==
    [][/\ Occurrences(log', "final_result") = recCalls'.final
       /\ pc' \in {"loop", "recognize", "closing"} => recCalls'.final = 0
       /\ (pc' \in {"save", "finish", "exit", "done"} /\ pipe' = "closed"
               /\ initOk' = "true") =>
            recCalls'.final = 1
       /\ \A i \in 2..Len(CallsFrom(log', "final_result")) :
            CallsFrom(log', "final_result")[i] \notin StreamingCalls \cup {"final_result"}
       /\ recCalls'.final # recCalls.final =>
            /\ pc = "closing" /\ pc' = "save"
            /\ accumulatedText' \in {accumulatedText, accumulate(accumulatedText, <<"a">>)}
            /\ textFile' = IF accumulatedText' = accumulatedText THEN textFile
                           ELSE writeToFile(accumulatedText')]_vars

C17_Witness ==
    /\ pc = "done"
    /\ recCalls = [partial |-> 2, accept |-> 2, result |-> 1, final |-> 1]
    /\ log[Len(log) - 1] = "final_result"
    /\ accumulatedText = <<"a", SPACE, "a">>
    /\ textFile = <<"a", SPACE, "a", NL>>

\* C18: what record() keeps of the chunks besides audioData, its
\* chunkBuffer, never holds more than the samples of one chunk: at most
\* sizeof(buffer) / 2, however many chunks were read.
C18_ChunkBufferHoldsOneChunk == Len(chunkBuffer) <= BufferSize \div 2

\* C20: the bytes given to accept_waveform in a pass are the bytes of the
\* samples that pass appended to audioData, the even-length prefix of the
\* read in its order; so all the bytes the recognizer was given, one call
\* after the other, are the bytes of audioData, up to the chunk that is yet
\* to be handed over, and of the audioData that saveWAVFile writes.
C20_AcceptedIsTheSampleBuffer ==
    /\ pc = "recognize" => BytesOf(audioData) = accepted \o EvenPrefix(lastData)
    /\ pc # "recognize" => BytesOf(audioData) = accepted
    /\ wavFile # <<>> => wavFile[1].data = accepted
    /\ recCalls.accept = updateCounter - (IF pc = "recognize" THEN 1 ELSE 0)

C20_Witness ==
    /\ pc = "done"
    /\ oddReads = 1
    /\ recCalls.accept = 2
    /\ Len(accepted) >= 4
    /\ accepted[1] # accepted[3]
    /\ wavFile # <<>>

=============================================================================
